---- MODULE Spec2Model ----
(***************************************************************************)
(* Model of semantic-code-search: the query parser (QueryOps::parse_token, *)
(* QueryOps::parse_query), the token test (Database::match_unit_flow), the *)
(* backtracking subsequence matcher (Database::match_flow), the degree of  *)
(* a type variable (Database::count_typevar_flows) and the search driver   *)
(* (search_dataflows).                                                     *)
(*                                                                         *)
(* Text is a sequence of one-character strings.  An Option<T> value is a   *)
(* set: {} is None and {x} is Some(x).                                     *)
(***************************************************************************)
EXTENDS Integers, Sequences, FiniteSets

VARIABLES
    mode,       \* which entry point this behaviour exercises
    pc,         \* "start" before the call, "done" once it has returned
    input,      \* parse_query: the query text
    parsed,     \* parse_query: what the call produced
    db,         \* Database::data_flows
    uf,         \* match_unit_flow: the token
    qop,        \* match_unit_flow: the predicate
    verdict,    \* match_unit_flow: the boolean returned
    flow,       \* match_flow: the flow slice
    query,      \* match_flow / search_dataflows: the predicate sequence
    matched,    \* match_flow: the boolean returned
    results,    \* search_dataflows: the references returned, as indexes into db
    scans       \* search_dataflows: count_typevar_flows calls made, per name

vars == <<mode, pc, input, parsed, db, uf, qop, verdict, flow, query, matched, results, scans>>

(***************************************************************************)
(* Bounds.                                                                 *)
(***************************************************************************)
MaxLen == 4

MaxFlowLen == 3

MaxQueryLen == 2

MaxDbFlowLen == 2

MaxFlows == 2

MaxCount == 2

(***************************************************************************)
(* Option<T>.                                                              *)
(***************************************************************************)
None == {}

Some(x) == {x}

Unwrap(o) == CHOOSE x \in o : TRUE

(***************************************************************************)
(* Predicates (enum QueryOps).                                             *)
(***************************************************************************)
QTypeVar(count) == [tag |-> "QTypeVar", count |-> count]

QConstructorArg(name, arg_index, desc) ==
    [tag |-> "QConstructorArg", name |-> name, arg_index |-> arg_index, desc |-> desc]

QType(name, desc) == [tag |-> "QType", name |-> name, desc |-> desc]

QDesc(text) == [tag |-> "QDesc", text |-> text]

(***************************************************************************)
(* Tokens (enum UnitFlow), with the fields the matcher reads.  Type::args, *)
(* ProgLoc::line and ProgLoc::char_range are read by the renderer only.    *)
(***************************************************************************)
Type(name, desc) == [tag |-> "Type", name |-> name, desc |-> desc]

ConstructorArg(name, arg_index, desc) ==
    [tag |-> "ConstructorArg", name |-> name, arg_index |-> arg_index, desc |-> desc]

TypeVar(name, desc) == [tag |-> "TypeVar", name |-> name, desc |-> desc]

ProgLoc(desc) == [tag |-> "ProgLoc", desc |-> desc]

(***************************************************************************)
(* Text primitives of the standard library, as parse_token uses them.      *)
(***************************************************************************)
QUOTE == "\""

Alphabet == {"#", "@", QUOTE, ",", " ", ".", ":", "+", "1", "x"}

DigitChars == <<"0", "1", "2", "3", "4", "5", "6", "7", "8", "9">>

IsDigit(c) == \E i \in 1..Len(DigitChars) : DigitChars[i] = c

DigitVal(c) == (CHOOSE i \in 1..Len(DigitChars) : DigitChars[i] = c) - 1

IsWhitespace(c) == c = " "

starts_with(s, c) == s # <<>> /\ s[1] = c

ends_with(s, c) == s # <<>> /\ s[Len(s)] = c

RECURSIVE trim_start(_)
trim_start(s) ==
    IF s # <<>> /\ IsWhitespace(s[1]) THEN trim_start(Tail(s)) ELSE s

RECURSIVE trim_end(_)
trim_end(s) ==
    IF s # <<>> /\ IsWhitespace(s[Len(s)])
    THEN trim_end(SubSeq(s, 1, Len(s) - 1))
    ELSE s

trim(s) == trim_end(trim_start(s))

\* str::split: one part more than there are delimiters; "" splits into [""].
RECURSIVE split_from(_, _, _, _)
split_from(s, delims, i, cur) ==
    IF i > Len(s) THEN <<cur>>
    ELSE IF s[i] \in delims THEN <<cur>> \o split_from(s, delims, i + 1, <<>>)
    ELSE split_from(s, delims, i + 1, Append(cur, s[i]))

split(s, delims) == split_from(s, delims, 1, <<>>)

RECURSIVE decimal(_, _)
decimal(s, acc) ==
    IF s = <<>> THEN acc ELSE decimal(Tail(s), 10 * acc + DigitVal(s[1]))

\* str::parse::<usize>: an optional '+', then one or more decimal digits.
\* (Overflow of usize is an error too; no text within MaxLen reaches it.)
parse_usize(s) ==
    LET digits == IF starts_with(s, "+") THEN Tail(s) ELSE s
    IN  IF digits = <<>> \/ \E i \in 1..Len(digits) : ~IsDigit(digits[i])
        THEN None
        ELSE Some(decimal(digits, 0))

(***************************************************************************)
(* Result<_, String>, and the panic of an out-of-order slice.              *)
(***************************************************************************)
Ok(v) == [kind |-> "Ok", value |-> v]

Err(reason) == [kind |-> "Err", reason |-> reason]

Panic == [kind |-> "Panic"]

(***************************************************************************)
(* QueryOps::parse_token                                                   *)
(***************************************************************************)
\* parse_constructor_arg without its index arm: the second part is always
\* taken as the description.
parse_constructor_arg_no_index(s) ==
    LET parts == split(Tail(s), {".", ":"})
    IN  IF Len(parts) = 1
        THEN Ok(QConstructorArg(parts[1], None, None))
        ELSE IF Len(parts) = 2
        THEN Ok(QConstructorArg(parts[1], None, Some(parts[2])))
        ELSE Err("Invalid constructor arg syntax")

parse_constructor_arg(s) ==
    LET parts == split(Tail(s), {".", ":"})
    IN  IF Len(parts) = 1
        THEN Ok(QConstructorArg(parts[1], None, None))
        ELSE IF Len(parts) = 2 /\ parse_usize(parts[2]) # None
        THEN Ok(QConstructorArg(parts[1], Some(Unwrap(parse_usize(parts[2]))), None))
        ELSE IF Len(parts) = 2
        THEN Ok(QConstructorArg(parts[1], None, Some(parts[2])))
        ELSE Err("Invalid constructor arg syntax")

\* s[1..s.len() - 1] panics when the range starts after its end.
parse_quoted(s) ==
    IF 1 > Len(s) - 1 THEN Panic ELSE Ok(QDesc(SubSeq(s, 2, Len(s) - 1)))

parse_type(s) ==
    LET parts == split(s, {":"})
    IN  IF Len(parts) = 1 THEN Ok(QType(parts[1], None))
        ELSE IF Len(parts) = 2 THEN Ok(QType(parts[1], Some(parts[2])))
        ELSE Err("Invalid type syntax")

parse_token(token) ==
    LET s == trim(token)
    IN  IF starts_with(s, "#")
        THEN IF parse_usize(Tail(s)) = None
             THEN Err("Invalid type variable count")
             ELSE Ok(QTypeVar(Unwrap(parse_usize(Tail(s)))))
        ELSE IF starts_with(s, "@") THEN parse_constructor_arg(s)
        ELSE IF starts_with(s, QUOTE) /\ ends_with(s, QUOTE) THEN parse_quoted(s)
        ELSE parse_type(s)

(***************************************************************************)
(* QueryOps::parse_query                                                   *)
(***************************************************************************)
trim_all(fields) == [i \in 1..Len(fields) |-> trim(fields[i])]

NonEmpty(s) == s # <<>>

\* .split(',').map(str::trim).filter(|s| !s.is_empty())
query_fields(text) == SelectSeq(trim_all(split(text, {","})), NonEmpty)

\* .map(Self::parse_token).collect(): lazy, and stops at the first Err.
RECURSIVE collect(_, _, _)
collect(fields, i, acc) ==
    IF i > Len(fields) THEN Ok(acc)
    ELSE LET r == parse_token(fields[i])
         IN  IF r.kind = "Ok" THEN collect(fields, i + 1, Append(acc, r.value))
             ELSE r

parse_query(text) == collect(query_fields(text), 1, <<>>)

(***************************************************************************)
(* Database::count_typevar_flows                                           *)
(***************************************************************************)
has_typevar(f, typevar_name) ==
    \E j \in 1..Len(f) : f[j].tag = "TypeVar" /\ f[j].name = typevar_name

RECURSIVE count_occurrences(_, _)
count_occurrences(f, typevar_name) ==
    IF f = <<>> THEN 0
    ELSE (IF f[1].tag = "TypeVar" /\ f[1].name = typevar_name THEN 1 ELSE 0)
         + count_occurrences(Tail(f), typevar_name)

\* count_typevar_flows counting the tokens of the name instead of the flows
\* that hold one.
RECURSIVE count_typevar_tokens(_, _)
count_typevar_tokens(d, typevar_name) ==
    IF d = <<>> THEN 0
    ELSE count_occurrences(d[1], typevar_name) + count_typevar_tokens(Tail(d), typevar_name)

count_typevar_flows(d, typevar_name) ==
    Len(SelectSeq(d, LAMBDA f : has_typevar(f, typevar_name)))

(***************************************************************************)
(* Database::match_unit_flow                                               *)
(***************************************************************************)
\* match_unit_flow with map_or(false, ..): an absent arg_index matches no
\* index.
match_unit_flow_index_required(d, u, q) ==
    IF u.tag = "TypeVar" /\ q.tag = "QTypeVar"
    THEN count_typevar_flows(d, u.name) = q.count
    ELSE IF u.tag = "Type" /\ q.tag = "QType"
    THEN u.name = q.name
    ELSE IF u.tag = "ConstructorArg" /\ q.tag = "QConstructorArg"
    THEN u.name = q.name /\ q.arg_index # None /\ u.arg_index = Unwrap(q.arg_index)
    ELSE IF q.tag = "QDesc"
    THEN u.desc = Some(q.text)
    ELSE FALSE

match_unit_flow(d, u, q) ==
    IF u.tag = "TypeVar" /\ q.tag = "QTypeVar"
    THEN count_typevar_flows(d, u.name) = q.count
    ELSE IF u.tag = "Type" /\ q.tag = "QType"
    THEN u.name = q.name
    ELSE IF u.tag = "ConstructorArg" /\ q.tag = "QConstructorArg"
    THEN u.name = q.name /\ (q.arg_index = None \/ u.arg_index = Unwrap(q.arg_index))
    ELSE IF q.tag = "QDesc"
    THEN u.desc = Some(q.text)
    ELSE FALSE

(***************************************************************************)
(* Database::match_flow.  match_flow_from is the for loop from position    *)
(* idx of f on, for a query with a first predicate.  The first two arms of *)
(* the match cover every (flow, query); its last arm is never taken.       *)
(***************************************************************************)
RECURSIVE match_flow(_, _, _)

\* The loop recursing on f[idx..] instead of f[idx + 1..]: the matched token
\* stays available to the next predicate.
RECURSIVE match_flow_from_no_advance(_, _, _, _)
match_flow_from_no_advance(d, f, q, idx) ==
    IF idx > Len(f) THEN FALSE
    ELSE IF /\ match_unit_flow(d, f[idx], q[1])
            /\ match_flow(d, SubSeq(f, idx, Len(f)), Tail(q))
    THEN TRUE
    ELSE match_flow_from_no_advance(d, f, q, idx + 1)

\* The loop returning false at the first token that does not satisfy the
\* predicate: no token is skipped.
match_flow_from_no_skip(d, f, q, idx) ==
    IF idx > Len(f) THEN FALSE
    ELSE /\ match_unit_flow(d, f[idx], q[1])
         /\ match_flow(d, SubSeq(f, idx + 1, Len(f)), Tail(q))

RECURSIVE match_flow_from(_, _, _, _)
match_flow_from(d, f, q, idx) ==
    IF idx > Len(f) THEN FALSE
    ELSE IF /\ match_unit_flow(d, f[idx], q[1])
            /\ match_flow(d, SubSeq(f, idx + 1, Len(f)), Tail(q))
    THEN TRUE
    ELSE match_flow_from(d, f, q, idx + 1)

match_flow(d, f, q) ==
    IF q # <<>> THEN match_flow_from(d, f, q, 1) ELSE TRUE

(***************************************************************************)
(* The calls of count_typevar_flows(typevar_name) that match_flow(f, q)    *)
(* makes: one for every evaluation of match_unit_flow on a TypeVar token   *)
(* of that name against a QTypeVar predicate.                              *)
(***************************************************************************)
unit_scans(u, q, typevar_name) ==
    IF u.tag = "TypeVar" /\ q.tag = "QTypeVar" /\ u.name = typevar_name THEN 1 ELSE 0

RECURSIVE match_flow_scans(_, _, _, _)

RECURSIVE match_flow_from_scans(_, _, _, _, _)
match_flow_from_scans(d, f, q, idx, typevar_name) ==
    IF idx > Len(f) THEN 0
    ELSE unit_scans(f[idx], q[1], typevar_name)
         + IF match_unit_flow(d, f[idx], q[1])
           THEN match_flow_scans(d, SubSeq(f, idx + 1, Len(f)), Tail(q), typevar_name)
                + IF match_flow(d, SubSeq(f, idx + 1, Len(f)), Tail(q))
                  THEN 0
                  ELSE match_flow_from_scans(d, f, q, idx + 1, typevar_name)
           ELSE match_flow_from_scans(d, f, q, idx + 1, typevar_name)

match_flow_scans(d, f, q, typevar_name) ==
    IF q # <<>> THEN match_flow_from_scans(d, f, q, 1, typevar_name) ELSE 0

(***************************************************************************)
(* search_dataflows: the flows that match, as references into data_flows.  *)
(***************************************************************************)
RECURSIVE filter_flows(_, _, _)
filter_flows(d, q, i) ==
    IF i > Len(d) THEN <<>>
    ELSE (IF match_flow(d, d[i], q) THEN <<i>> ELSE <<>>) \o filter_flows(d, q, i + 1)

\* The search with find in place of filter: it stops at the first match.
search_dataflows_first(d, q) ==
    LET all == filter_flows(d, q, 1) IN IF all = <<>> THEN <<>> ELSE <<all[1]>>

search_dataflows(d, q) == filter_flows(d, q, 1)

RECURSIVE search_scans_from(_, _, _, _)
search_scans_from(d, q, i, typevar_name) ==
    IF i > Len(d) THEN 0
    ELSE match_flow_scans(d, d[i], q, typevar_name)
         + search_scans_from(d, q, i + 1, typevar_name)

\* Database::type_vars, as load_from_json collects it.
type_vars(d) ==
    UNION {{d[i][j].name : j \in {k \in 1..Len(d[i]) : d[i][k].tag = "TypeVar"}} :
           i \in 1..Len(d)}

(***************************************************************************)
(* Inputs.                                                                 *)
(***************************************************************************)
SeqsUpTo(S, n) == UNION {[1..k -> S] : k \in 0..n}

TextsUpTo(n) == SeqsUpTo(Alphabet, n)

Names == {"a", "b"}

Descs == {None, Some("d")}

Indexes == {0, 1}

UnitTokens ==
    {Type(n, ds) : n \in Names, ds \in Descs}
    \cup {ConstructorArg(n, ix, ds) : n \in Names, ix \in Indexes, ds \in Descs}
    \cup {TypeVar(n, ds) : n \in Names, ds \in Descs}
    \cup {ProgLoc(ds) : ds \in Descs}

UnitPreds ==
    {QTypeVar(k) : k \in 0..MaxCount}
    \cup {QType(n, ds) : n \in Names, ds \in Descs}
    \cup {QConstructorArg(n, ix, ds) :
             n \in Names, ix \in {None} \cup {Some(x) : x \in Indexes}, ds \in Descs}
    \cup {QDesc(t) : t \in {"d", "e"}}

\* The tokens of a database's flows: a type variable, and a type of the same
\* name, which the degree of the name must not count.
DbTokens == {TypeVar("a", None), Type("a", Some("d"))}

Dbs == SeqsUpTo(SeqsUpTo(DbTokens, MaxDbFlowLen), MaxFlows)

SearchPreds == {QTypeVar(1), QTypeVar(2), QDesc("d")}

\* One token of each kind a predicate of MatchPreds tells apart.
MatchTokens ==
    {Type("a", None), ConstructorArg("a", 1, Some("d")),
     TypeVar("a", Some("d")), TypeVar("b", None)}

MatchPreds == {QType("a", None), QConstructorArg("a", None, None), QTypeVar(1), QDesc("d")}

\* The flows of the database that precede the one being matched.
MatchContexts == {<<>>, << <<TypeVar("a", None)>> >>}

NotCalled == [kind |-> "NotCalled"]

(***************************************************************************)
(* The parser as a state machine: a text is given, parse_query returns.    *)
(***************************************************************************)
InitParse ==
    /\ mode = "parse"
    /\ pc = "start"
    /\ input \in TextsUpTo(MaxLen)
    /\ parsed = NotCalled
    /\ db = <<>>
    /\ uf = NotCalled
    /\ qop = NotCalled
    /\ verdict = FALSE
    /\ flow = <<>>
    /\ query = <<>>
    /\ matched = FALSE
    /\ results = <<>>
    /\ scans = <<>>

ParseQuery ==
    /\ mode = "parse"
    /\ pc = "start"
    /\ parsed' = parse_query(input)
    /\ pc' = "done"
    /\ UNCHANGED <<mode, input, db, uf, qop, verdict, flow, query, matched, results, scans>>

NextParse == ParseQuery

SpecParse == InitParse /\ [][NextParse]_vars

(***************************************************************************)
(* The token test as a state machine.                                      *)
(***************************************************************************)
InitUnit ==
    /\ mode = "unit"
    /\ pc = "start"
    /\ input = <<>>
    /\ parsed = NotCalled
    /\ db \in Dbs
    /\ uf \in UnitTokens
    /\ qop \in UnitPreds
    /\ verdict = FALSE
    /\ flow = <<>>
    /\ query = <<>>
    /\ matched = FALSE
    /\ results = <<>>
    /\ scans = <<>>

MatchUnitFlow ==
    /\ mode = "unit"
    /\ pc = "start"
    /\ verdict' = match_unit_flow(db, uf, qop)
    /\ pc' = "done"
    /\ UNCHANGED <<mode, input, parsed, db, uf, qop, flow, query, matched, results, scans>>

NextUnit == MatchUnitFlow

SpecUnit == InitUnit /\ [][NextUnit]_vars

(***************************************************************************)
(* The matcher as a state machine: one flow of a database, one query.      *)
(***************************************************************************)
InitMatch ==
    /\ mode = "match"
    /\ pc = "start"
    /\ input = <<>>
    /\ parsed = NotCalled
    /\ flow \in SeqsUpTo(MatchTokens, MaxFlowLen)
    /\ \E context \in MatchContexts : db = context \o <<flow>>
    /\ uf = NotCalled
    /\ qop = NotCalled
    /\ verdict = FALSE
    /\ query \in SeqsUpTo(MatchPreds, MaxQueryLen)
    /\ matched = FALSE
    /\ results = <<>>
    /\ scans = <<>>

MatchFlow ==
    /\ mode = "match"
    /\ pc = "start"
    /\ matched' = match_flow(db, flow, query)
    /\ pc' = "done"
    /\ UNCHANGED <<mode, input, parsed, db, uf, qop, verdict, flow, query, results, scans>>

NextMatch == MatchFlow

SpecMatch == InitMatch /\ [][NextMatch]_vars

(***************************************************************************)
(* The search driver as a state machine: a database, a query, the search.  *)
(***************************************************************************)
InitSearch ==
    /\ mode = "search"
    /\ pc = "start"
    /\ input = <<>>
    /\ parsed = NotCalled
    /\ db \in Dbs
    /\ uf = NotCalled
    /\ qop = NotCalled
    /\ verdict = FALSE
    /\ flow = <<>>
    /\ query \in SeqsUpTo(SearchPreds, MaxQueryLen)
    /\ matched = FALSE
    /\ results = <<>>
    /\ scans = [n \in type_vars(db) |-> 0]

SearchDataflows ==
    /\ mode = "search"
    /\ pc = "start"
    /\ results' = search_dataflows(db, query)
    /\ scans' = [n \in type_vars(db) |-> search_scans_from(db, query, 1, n)]
    /\ pc' = "done"
    /\ UNCHANGED <<mode, input, parsed, db, uf, qop, verdict, flow, query, matched>>

NextSearch == SearchDataflows

SpecSearch == InitSearch /\ [][NextSearch]_vars

(***************************************************************************)
(* All four entry points together.                                         *)
(***************************************************************************)
Init == InitParse \/ InitUnit \/ InitMatch \/ InitSearch

Next == ParseQuery \/ MatchUnitFlow \/ MatchFlow \/ SearchDataflows

Spec == Init /\ [][Next]_vars

(***************************************************************************)
(* The lexical forms of the query grammar, read off the text itself:       *)
(* what each comma-separated field is, independently of how parse_token    *)
(* gets there.                                                             *)
(***************************************************************************)
LexBounds(text) == {0, Len(text) + 1} \cup {i \in 1..Len(text) : text[i] = ","}

LexBound(text, k) ==
    CHOOSE p \in LexBounds(text) : Cardinality({q \in LexBounds(text) : q < p}) = k - 1

\* The k-th comma-separated field, commas excluded.
LexRawField(text, k) == SubSeq(text, LexBound(text, k) + 1, LexBound(text, k + 1) - 1)

LexRawCount(text) == Cardinality(LexBounds(text)) - 1

\* A field without its surrounding blanks.
LexStrip(s) ==
    LET inked == {i \in 1..Len(s) : s[i] # " "}
    IN  IF inked = {} THEN <<>>
        ELSE SubSeq(s, CHOOSE i \in inked : \A j \in inked : i <= j,
                       CHOOSE i \in inked : \A j \in inked : j <= i)

LexIsBlank(s) == \A i \in 1..Len(s) : s[i] = " "

\* The fields that are non-empty after trimming, left to right.
LexFields(text) ==
    LET kept == {k \in 1..LexRawCount(text) : ~LexIsBlank(LexRawField(text, k))}
        nth(n) == CHOOSE k \in kept : Cardinality({j \in kept : j < k}) = n - 1
    IN  [n \in 1..Cardinality(kept) |-> LexStrip(LexRawField(text, nth(n)))]

LexIsNumeral(s) == s # <<>> /\ \A i \in 1..Len(s) : s[i] \in {DigitChars[d] : d \in 1..10}

RECURSIVE LexPow10(_)
LexPow10(n) == IF n = 0 THEN 1 ELSE 10 * LexPow10(n - 1)

RECURSIVE LexValueFrom(_, _)
LexValueFrom(s, i) ==
    IF i > Len(s) THEN 0
    ELSE (CHOOSE d \in 0..9 : DigitChars[d + 1] = s[i]) * LexPow10(Len(s) - i)
         + LexValueFrom(s, i + 1)

LexValue(s) == LexValueFrom(s, 1)

\* What str::parse::<usize> accepts: an optional '+' before a numeral.
LexIsUsize(s) == LexIsNumeral(s) \/ (s # <<>> /\ s[1] = "+" /\ LexIsNumeral(Tail(s)))

LexUsize(s) == IF s[1] = "+" THEN LexValue(Tail(s)) ELSE LexValue(s)

LexMarks(s, marks) == {i \in 1..Len(s) : s[i] \in marks}

LexBefore(s, p) == SubSeq(s, 1, p - 1)

LexAfter(s, p) == SubSeq(s, p + 1, Len(s))

LexWrapped(f) == Len(f) >= 2 /\ f[1] = QUOTE /\ f[Len(f)] = QUOTE

\* The predicate the grammar table assigns to a trimmed, non-empty field, as
\* Some(predicate), or None when the field has none of the table's forms.
\* colonIndex says how "@name:<digits>" is read: FALSE reads every
\* "@name:desc" as a description, TRUE reads a desc that parses as an
\* integer as the arg_index.
LexForm(f, colonIndex) ==
    IF f[1] = "#" THEN
        IF LexIsNumeral(Tail(f)) THEN Some(QTypeVar(LexValue(Tail(f)))) ELSE None
    ELSE IF f[1] = "@" THEN
        LET rest == Tail(f)
            at == LexMarks(rest, {".", ":"})
        IN  IF at = {} THEN Some(QConstructorArg(rest, None, None))
            ELSE IF Cardinality(at) > 1 THEN None
            ELSE LET p == CHOOSE i \in at : TRUE
                     name == LexBefore(rest, p)
                     tail == LexAfter(rest, p)
                 IN  IF rest[p] = "."
                     THEN IF LexIsNumeral(tail)
                          THEN Some(QConstructorArg(name, Some(LexValue(tail)), None))
                          ELSE None
                     ELSE IF colonIndex /\ LexIsUsize(tail)
                          THEN Some(QConstructorArg(name, Some(LexUsize(tail)), None))
                          ELSE Some(QConstructorArg(name, None, Some(tail)))
    ELSE IF LexWrapped(f) THEN Some(QDesc(SubSeq(f, 2, Len(f) - 1)))
    ELSE IF f = <<QUOTE>> THEN None
    ELSE LET at == LexMarks(f, {":"})
         IN  IF at = {} THEN Some(QType(f, None))
             ELSE IF Cardinality(at) > 1 THEN None
             ELSE LET p == CHOOSE i \in at : TRUE
                  IN  Some(QType(LexBefore(f, p), Some(LexAfter(f, p))))

LexAgrees(text, colonIndex) ==
    LET fields == LexFields(text)
    IN  /\ Len(parsed.value) = Len(fields)
        /\ \A i \in 1..Len(fields) :
              LexForm(fields[i], colonIndex) # None
                  => parsed.value[i] = Unwrap(LexForm(fields[i], colonIndex))

Returned == mode = "parse" /\ pc = "done"

\* C5 (as stated): on success the Query has one predicate per non-empty
\* trimmed field, in order, each the one of its field's lexical form, where
\* every @name:desc is a ByConstructorArg with description desc.
C5_FormsAsStated == (Returned /\ parsed.kind = "Ok") => LexAgrees(input, FALSE)

\* C5 (amended): on success the Query has one predicate per non-empty
\* trimmed field, in order, each the one of its field's lexical form, where
\* @name:desc is a ByConstructorArg with description desc unless desc parses
\* as a non-negative integer, and then it is the arg_index, as in @name.N.
C5_Forms == (Returned /\ parsed.kind = "Ok") => LexAgrees(input, TRUE)

\* A successful parse of a field of the form @name:<integer>.
C5_Witness ==
    /\ Returned
    /\ parsed.kind = "Ok"
    /\ Len(parsed.value) = 1
    /\ parsed.value[1].tag = "QConstructorArg"
    /\ parsed.value[1].name # <<>>
    /\ parsed.value[1].arg_index # None
    /\ ":" \in {input[i] : i \in 1..Len(input)}

\* C6: parse_query returns a Query or an error for every text; it never
\* aborts.
C6_AlwaysReturns == Returned => parsed.kind \in {"Ok", "Err"}

\* The malformed fields of the grammar: a '#' without a count, more than one
\* delimiter after '@', more than one ':' in a type.
LexMalformed(f) ==
    IF f = <<>> THEN FALSE
    ELSE IF f[1] = "#" THEN ~LexIsUsize(Tail(f))
    ELSE IF f[1] = "@" THEN Cardinality(LexMarks(f, {".", ":"})) > 1
    ELSE IF LexWrapped(f) THEN FALSE
    ELSE Cardinality(LexMarks(f, {":"})) > 1

LexFirstMalformed(text) ==
    CHOOSE k \in 1..LexRawCount(text) :
        /\ LexMalformed(LexStrip(LexRawField(text, k)))
        /\ \A j \in 1..(k - 1) : ~LexMalformed(LexStrip(LexRawField(text, j)))

\* C7: a failed parse hands the caller the reason and the 1-based position of
\* the first malformed field.
C7_ErrorHasPosition ==
    (Returned /\ parsed.kind = "Err")
        => /\ "reason" \in DOMAIN parsed
           /\ "position" \in DOMAIN parsed
           /\ parsed.position = LexFirstMalformed(input)

\* C8: a Query that parse_query returns has at least one predicate.
C8_QueryNonEmpty == (Returned /\ parsed.kind = "Ok") => parsed.value # <<>>

(***************************************************************************)
(* Claims about the matcher.                                               *)
(***************************************************************************)
Matched == mode = "match" /\ pc = "done"

\* Strictly increasing positions of f, one per predicate of q, each token
\* satisfying its predicate.
SubsequenceExists(d, f, q) ==
    \E at \in [1..Len(q) -> 1..Len(f)] :
        /\ \A k \in 1..(Len(q) - 1) : at[k] < at[k + 1]
        /\ \A k \in 1..Len(q) : match_unit_flow(d, f[at[k]], q[k])

\* C1: match_flow(F, Q) is true if and only if F has strictly increasing
\* positions, one per predicate of Q, whose tokens satisfy the predicates in
\* order; they need not be contiguous, and the empty Q matches every F.
C1_Subsequence == Matched => (matched <=> SubsequenceExists(db, flow, query))

\* A match of two predicates that no two adjacent positions give.
C1_Witness ==
    /\ Matched
    /\ matched
    /\ Len(query) = 2
    /\ \A i \in 1..(Len(flow) - 1) :
          ~(/\ match_unit_flow(db, flow[i], query[1])
            /\ match_unit_flow(db, flow[i + 1], query[2]))

\* The first position of f from idx on whose token satisfies predicate p, or
\* 0 when there is none.
FirstSatisfying(d, f, p, idx) ==
    LET hits == {i \in idx..Len(f) : match_unit_flow(d, f[i], p)}
    IN  IF hits = {} THEN 0 ELSE CHOOSE i \in hits : \A j \in hits : i <= j

\* The single greedy pass: each predicate takes the first satisfying
\* position after the one taken before it.
RECURSIVE Greedy(_, _, _, _, _)
Greedy(d, f, q, k, idx) ==
    IF k > Len(q) THEN TRUE
    ELSE LET i == FirstSatisfying(d, f, q[k], idx)
         IN  IF i = 0 THEN FALSE ELSE Greedy(d, f, q, k + 1, i + 1)

\* C10: match_flow returns what the greedy single pass returns; backtracking
\* to a later satisfying position never changes the outcome.
C10_Greedy == Matched => (matched <=> Greedy(db, flow, query, 1, 1))

\* A failed match in which the first predicate had two satisfying positions,
\* so that the loop went on to the second after the first attempt failed.
C10_Witness ==
    /\ Matched
    /\ ~matched
    /\ Len(query) = 2
    /\ Cardinality({i \in 1..Len(flow) : match_unit_flow(db, flow[i], query[1])}) >= 2

(***************************************************************************)
(* Claims about the token test.                                            *)
(***************************************************************************)
Tested == mode = "unit" /\ pc = "done"

\* The flows of the database that hold a TypeVar token of the given name.
FlowsNaming(d, n) ==
    {i \in 1..Len(d) : \E j \in 1..Len(d[i]) : d[i][j].tag = "TypeVar" /\ d[i][j].name = n}

\* C2: QTypeVar(k) matches a type-variable token named n if and only if
\* exactly k flows of the whole database hold a type-variable token named n,
\* a flow that holds several counting once.
C2_Degree ==
    (Tested /\ uf.tag = "TypeVar" /\ qop.tag = "QTypeVar")
        => (verdict <=> Cardinality(FlowsNaming(db, uf.name)) = qop.count)

\* A degree predicate matching a name that one flow holds twice and another
\* flow holds too.
C2_Witness ==
    /\ Tested
    /\ uf.tag = "TypeVar"
    /\ qop.tag = "QTypeVar"
    /\ verdict
    /\ qop.count = 2
    /\ \E i \in 1..Len(db) :
          Cardinality({j \in 1..Len(db[i]) : db[i][j].name = uf.name}) = 2

\* The pairings in which a predicate other than QTypeVar matches a token.
UnitTable(u, q) ==
    \/ /\ q.tag = "QType"
       /\ u.tag = "Type"
       /\ u.name = q.name
    \/ /\ q.tag = "QConstructorArg"
       /\ u.tag = "ConstructorArg"
       /\ u.name = q.name
       /\ q.arg_index \in {None, Some(u.arg_index)}
    \/ /\ q.tag = "QDesc"
       /\ u.desc # None
       /\ Unwrap(u.desc) = q.text

Searched == mode = "search" /\ pc = "done"

\* C3: search_dataflows returns exactly the flows of the database that
\* match_flow accepts, each occurrence once, in the database's order; the
\* empty sequence when none matches.
C3_SearchFilter ==
    Searched
        => /\ \A k \in 1..(Len(results) - 1) : results[k] < results[k + 1]
           /\ {results[k] : k \in 1..Len(results)}
                  = {i \in 1..Len(db) : match_flow(db, db[i], query)}

\* A search that returns both of two equal flows.
C3_Witness ==
    /\ Searched
    /\ Len(db) = 2
    /\ db[1] = db[2]
    /\ query # <<>>
    /\ results = <<1, 2>>

\* C9: during one search the database is scanned for the degree of a
\* type-variable name at most once per name.
C9_ScanOncePerName == Searched => \A n \in DOMAIN scans : scans[n] <= 1

====
